---- MODULE Spec2Model ----
(***************************************************************************)
(* Job orchestration of the MVS Designer service: the upload pipeline,     *)
(* the reconstruct handler, the Meshroom supervisor thread and the status  *)
(* poll, as implemented by app/blueprints/api.py, app/services and         *)
(* app/models.py.                                                          *)
(*                                                                         *)
(* Persistence follows the SQLAlchemy unit of work the handlers run on:    *)
(* a handler loads a row into its session, changes attributes, and the     *)
(* commit writes the columns whose value differs from the loaded one.      *)
(* After a commit every attribute of the session's objects is expired, so  *)
(* an attribute assigned after a commit is written unconditionally.        *)
(***************************************************************************)
EXTENDS Integers, Sequences, FiniteSets, TLC

(* ---------------- bounds of the model ---------------- *)
MaxJobs == 1
MaxRuns == 2
MaxReq == 3
MaxFiles == 4
MaxTicks == 1

(* ---------------- program constants ---------------- *)
MinFiles == 3
MinValidImages == 3
InitProgress == 0
HandlerProgress == 5
LaunchProgress == 10
DoneProgress == 100
MonitorCap == 90
MonitorInterval == 30

Users == {"alice", "bob"}
(* the users who upload: with MaxJobs jobs the names are interchangeable,  *)
(* every other request is made by every user                              *)
Uploaders == {"alice"}
JobIds == 1..MaxJobs
Runs == 1..MaxRuns
Polls == 1..MaxReq

QUALITY_PRESETS_WithUltra == {"low", "medium", "high", "ultra"}
(* Config.QUALITY_PRESETS: the keys of the dict *)
QUALITY_PRESETS == {"low", "medium", "high"}
ReconstructStartable_WithCompleted == {"pending", "failed", "completed"}
ReconstructStartable == {"pending", "failed"}
Terminal == {"completed", "failed"}

(* request bodies the clients send to /reconstruct: (quality, preset) *)
RequestParams == {<<"low", "fast">>, <<"ultra", "fast">>}

(* None of an optional python value *)
NoMsg == <<>>
NoProgress == -1
NoPath == "none"
NoStatus == "none"
NoTime == 0

(* message texts; a message is the sequence of the parts of the f-string *)
TaskMissingMsg == <<"task does not exist">>
ReconFailedMsg_NoStderr(stderr) == <<"reconstruction failed">>
ReconFailedMsg(stderr) == <<"reconstruction failed: ", stderr>>
ReconErrorMsg(e) == <<"reconstruction error: ", e>>
ExcMsg(e) == <<e>>
Contains(msg, text) == \E i \in DOMAIN msg : msg[i] = text

Diagnostics == {"out of memory"}
LaunchErrors == {"No such file or directory: meshroom_batch"}
ListdirError == "No such file or directory: uploads"

Min(a, b) == IF a < b THEN a ELSE b

VARIABLES
    jobs,        \* reconstruction_jobs table: job_id -> committed row
    images,      \* job_images table: job_id -> number of rows per file kind
    input_dir,   \* job_id -> the upload folder of the job exists on disk
    model_file,  \* job_id -> MODELS_FOLDER/<job_id>/<job_id>.obj exists
    njobs,       \* number of job ids handed out by uuid4 so far
    nrun,        \* number of reconstruct requests received
    npoll,       \* number of status requests received
    recon,       \* reconstruct request -> state of the handler serving it
    sup,         \* reconstruct request -> supervisor thread it started
    poll,        \* status request -> state of the handler serving it
    s3_service,  \* current_app.s3_service is configured (not None)
    s3_uploads,  \* job_id -> calls of upload_local_file for the model key
    response,    \* the last HTTP response sent
    output_dir,  \* job_id -> MODELS_FOLDER/<job_id> exists on disk
    s3_objects,  \* job_id -> kinds of objects stored under jobs/<job_id>/
    nreq,        \* number of other requests received (delete, download, ...)
    deleted      \* job_id -> what the deletion of the job did, in order

vars == <<jobs, images, input_dir, model_file, njobs, nrun, npoll, recon,
          sup, poll, s3_service, s3_uploads, response, output_dir,
          s3_objects, nreq, deleted>>

(* datetime.now(): a timestamp column is either NULL or holds some time *)
Now == 1

(* ---------------- app/models.py ---------------- *)

(* ReconstructionJob.__init__ and the column defaults *)
NewJob(u, j) ==
    [user_id |-> u, job_id |-> j, title |-> "3D job", status |-> "pending",
     quality |-> "medium",
     preset |-> "default", progress |-> 0, error_message |-> NoMsg,
     input_folder |-> NoPath, output_folder |-> NoPath,
     model_file_path |-> NoPath, s3_key_prefix |-> NoPath,
     started_at |-> NoTime, completed_at |-> NoTime]

update_status(row, status, progress, error_message, now) ==
    LET r1 == [row EXCEPT !.status = status]
        r2 == IF progress # NoProgress THEN [r1 EXCEPT !.progress = progress]
              ELSE r1
        r3 == IF error_message # NoMsg
              THEN [r2 EXCEPT !.error_message = error_message] ELSE r2
    IN  IF status = "running" /\ r3.started_at = NoTime
        THEN [r3 EXCEPT !.started_at = now]
        ELSE IF status \in Terminal
        THEN [r3 EXCEPT !.completed_at = now]
        ELSE r3

(* db.session.commit(): the UPDATE carries the columns changed since load *)
Flush(dbrow, loaded, cur) ==
    [f \in DOMAIN cur |-> IF cur[f] # loaded[f] THEN cur[f] ELSE dbrow[f]]

(* ---------------- upload: middleware/validation.py, job_service.py ------ *)

(* A batch of candidate files, counted by kind:                            *)
(*   good   allowed extension, decodable, at least 800x600, at most 50MB   *)
(*   small  allowed extension, corrupt or below 800x600                    *)
(*   badext a file name without an allowed extension                       *)
(*   huge   allowed extension, more than 50MB                              *)
(*   empty  a form part without a file name                                *)
BatchSize(b) == b.good + b.small + b.badext + b.huge + b.empty

(* batches of at most MaxFiles parts; valid images beyond the minimum are  *)
(* treated like the minimum by every check, so a batch holds at most       *)
(* MinValidImages of them                                                  *)
Batches ==
    {b \in [good : 0..MinValidImages, small : 0..MaxFiles,
            badext : 0..MaxFiles, huge : 0..MaxFiles, empty : 0..MaxFiles] :
        BatchSize(b) <= MaxFiles}

validate_file_upload(b) ==
    /\ BatchSize(b) >= MinFiles
    /\ b.badext = 0
    /\ b.huge = 0
    /\ b.good + b.small >= MinFiles

(* files of the batch that allowed_file() lets job_service save *)
SavedFiles(b) == b.good + b.small + b.huge

validate_images(b) ==
    /\ SavedFiles(b) >= MinValidImages
    /\ b.good >= MinValidImages

job_service_upload_images(b) ==
    /\ BatchSize(b) >= MinFiles
    /\ SavedFiles(b) >= MinFiles
    /\ validate_images(b)

NoImages == [good |-> 0, small |-> 0]

(* create_job commits the Job row and makes the folder; upload_images then *)
(* either commits the Image rows or removes the folder and returns. Every  *)
(* saved file is mirrored with S3Service.upload_file, which turns a        *)
(* ClientError into success False and lets any other exception through to  *)
(* the except branch of upload_images (rollback, remove the folder).       *)
upload_images(u, b, store) ==
    /\ njobs < MaxJobs
    /\ IF ~validate_file_upload(b)
       THEN /\ response' = [kind |-> "upload", code |-> 400, job_id |-> 0]
            /\ UNCHANGED <<jobs, images, input_dir, njobs, s3_objects>>
       ELSE LET j == njobs + 1
                row == [NewJob(u, j) EXCEPT !.input_folder = "uploads"]
                mirrors == s3_service /\ SavedFiles(b) > 0
                raises == mirrors /\ store = "raise"
            IN  /\ njobs' = j
                /\ jobs' = [k \in DOMAIN jobs \cup {j} |->
                              IF k = j THEN row ELSE jobs[k]]
                /\ s3_objects' = IF mirrors /\ store = "ok"
                                 THEN [s3_objects EXCEPT ![j] = {"images"}]
                                 ELSE s3_objects
                /\ IF job_service_upload_images(b) /\ ~raises
                   THEN /\ images' = [images EXCEPT ![j] =
                                 [good |-> b.good, small |-> b.small]]
                        /\ input_dir' = [input_dir EXCEPT ![j] = TRUE]
                        /\ response' = [kind |-> "upload", code |-> 200,
                                        job_id |-> j]
                   ELSE /\ images' = images
                        /\ input_dir' = [input_dir EXCEPT ![j] = FALSE]
                        /\ response' = [kind |-> "upload", code |-> 400,
                                        job_id |-> 0]
    /\ UNCHANGED <<model_file, nrun, npoll, recon, sup, poll, s3_service,
                   s3_uploads, output_dir, nreq, deleted>>

(* ---------------- handler and thread bookkeeping ---------------- *)

NoRow == NewJob("none", 0)

IdleReq ==
    [pc |-> "idle", user |-> "none", job |-> 0, loaded |-> NoRow,
     cur |-> NoRow, result |-> "none"]

DoneReq == [IdleReq EXCEPT !.pc = "done"]

IdlePoll == [pc |-> "idle", user |-> "none", job |-> 0, loaded |-> NoRow]

DonePoll == [IdlePoll EXCEPT !.pc = "done"]

NoEntry ==
    [status |-> NoStatus, progress |-> NoProgress, message |-> NoMsg,
     output_file |-> NoPath]

NoSup ==
    [pc |-> "none", job |-> 0, mem |-> NoEntry, iter |-> 0, rc |-> -1,
     diag |-> "none", found |-> FALSE]

get_job_AnyUser(u, j) == j \in DOMAIN jobs

(* ReconstructionJob.query.filter_by(job_id=..., user_id=...).first() *)
get_job(u, j) == j \in DOMAIN jobs /\ jobs[j].user_id = u

(* ---------------- reconstruct: blueprints/api.py reconstruct_3d -------- *)

(* lines 77-111: look the job up, check the gate, stage the new run *)
reconstruct_3d(u, j, p) ==
    /\ nrun < MaxRuns
    /\ nrun + npoll + nreq < MaxReq
    /\ nrun' = nrun + 1
    /\ LET r == nrun + 1
           quality == p[1]
           preset == p[2]
       IN  IF ~get_job(u, j)
           THEN /\ recon' = [recon EXCEPT ![r] = DoneReq]
                /\ response' = [kind |-> "reconstruct", code |-> 404,
                                job_id |-> j, error |-> "job not found"]
           ELSE IF jobs[j].status \notin ReconstructStartable
           THEN /\ recon' = [recon EXCEPT ![r] = DoneReq]
                /\ response' = [kind |-> "reconstruct", code |-> 400,
                                job_id |-> j, error |-> "job status"]
           ELSE IF quality \notin QUALITY_PRESETS
           THEN /\ recon' = [recon EXCEPT ![r] = DoneReq]
                /\ response' = [kind |-> "reconstruct", code |-> 400,
                                job_id |-> j, error |-> "invalid quality"]
           ELSE /\ recon' = [recon EXCEPT ![r] =
                     [pc |-> "start", user |-> u, job |-> j,
                      loaded |-> jobs[j],
                      cur |-> update_status(
                                 [jobs[j] EXCEPT !.quality = quality,
                                                 !.preset = preset],
                                 "running", InitProgress, NoMsg, Now),
                      result |-> "none"]]
                /\ UNCHANGED response
    /\ UNCHANGED <<jobs, images, input_dir, model_file, njobs, npoll, sup,
                   poll, s3_service, s3_uploads, output_dir, s3_objects,
                   nreq, deleted>>

(* MeshroomService.start_reconstruction, called by the handler: the       *)
(* query flushes the staged run, lines 61-65 commit initializing, lines    *)
(* 68-86 start the thread, and _estimate_time lists the input folder.      *)
start_reconstruction(r) ==
    /\ recon[r].pc = "start"
    /\ output_dir' = [output_dir EXCEPT ![recon[r].job] = TRUE]
    /\ LET j == recon[r].job
       IN  IF j \notin DOMAIN jobs
           THEN \* the flush finds no row: the except branch answers failure
                /\ recon' = [recon EXCEPT ![r].pc = "post",
                                          ![r].result = "stale_row"]
                /\ UNCHANGED <<jobs, sup>>
           ELSE /\ LET flushed == Flush(jobs[j], recon[r].loaded, recon[r].cur)
                       cur2 == [update_status(recon[r].cur, "initializing",
                                              InitProgress, NoMsg, Now)
                                EXCEPT !.output_folder = "models"]
                   IN  jobs' = [jobs EXCEPT ![j] =
                                   Flush(flushed, recon[r].cur, cur2)]
                /\ sup' = [sup EXCEPT ![r] =
                      [NoSup EXCEPT !.pc = "run5", !.job = j,
                          !.mem = [status |-> "initializing",
                                   progress |-> InitProgress,
                                   message |-> <<"initializing">>,
                                   output_file |-> NoPath]]]
                /\ recon' = [recon EXCEPT ![r].pc = "post",
                             ![r].result = IF input_dir[j] THEN "success"
                                           ELSE "listdir_failed"]
    /\ UNCHANGED <<images, input_dir, model_file, njobs, nrun, npoll, poll,
                   s3_service, s3_uploads, response, s3_objects, nreq,
                   deleted>>

(* lines 124-144: the handler's branch on result['success'] and its commit; *)
(* the job object is expired by the commit of start_reconstruction, so the  *)
(* attributes assigned here are written whatever the row holds.            *)
reconstruct_3d_result(r) ==
    /\ recon[r].pc = "post"
    /\ LET j == recon[r].job
       IN  IF j \notin DOMAIN jobs
           THEN /\ response' = [kind |-> "reconstruct", code |-> 500,
                                job_id |-> j, error |-> "start failed"]
                /\ UNCHANGED jobs
           ELSE IF recon[r].result = "success"
           THEN /\ jobs' = [jobs EXCEPT ![j] =
                     [@ EXCEPT !.status = "running",
                               !.progress = HandlerProgress,
                               !.started_at = IF @ = NoTime THEN Now ELSE @]]
                /\ response' = [kind |-> "reconstruct", code |-> 200,
                                job_id |-> j, error |-> "none"]
           ELSE /\ jobs' = [jobs EXCEPT ![j] =
                     [@ EXCEPT !.status = "failed",
                               !.error_message = ExcMsg(ListdirError),
                               !.completed_at = Now]]
                /\ response' = [kind |-> "reconstruct", code |-> 500,
                                job_id |-> j, error |-> recon[r].result]
    /\ recon' = [recon EXCEPT ![r] = DoneReq]
    /\ UNCHANGED <<images, input_dir, model_file, njobs, nrun, npoll, sup,
                   poll, s3_service, s3_uploads, output_dir, s3_objects,
                   nreq, deleted>>

(* ---------------- supervisor: services/meshroom_service.py ------------- *)

_update_job_status_NoProgress(j, status, progress, error_message) ==
    IF j \in DOMAIN jobs
    THEN [jobs EXCEPT ![j] =
             update_status(@, status, NoProgress, error_message, Now)]
    ELSE jobs

_update_job_status_Upsert(j, status, progress, error_message) ==
    [k \in DOMAIN jobs \cup {j} |->
        IF k # j THEN jobs[k]
        ELSE update_status(IF j \in DOMAIN jobs THEN jobs[j]
                           ELSE NewJob("none", j),
                           status, progress, error_message, Now)]

(* MeshroomService._update_job_status: query, update_status, commit *)
_update_job_status(j, status, progress, error_message) ==
    IF j \in DOMAIN jobs
    THEN [jobs EXCEPT ![j] =
             update_status(@, status, progress, error_message, Now)]
    ELSE jobs

(* _process_output has no return statement: its value is None *)
_process_output(found) == NoPath

(* _monitor_progress: min(90, int(elapsed / 60 * 10)) *)
MonitorProgress(elapsed) == Min(MonitorCap, (elapsed * 10) \div 60)

(* _run_reconstruction, lines 100-105 *)
SupRunning(r) ==
    /\ sup[r].pc = "run5"
    /\ sup' = [sup EXCEPT ![r].pc = "run10",
                          ![r].mem.status = "running",
                          ![r].mem.message = <<"reconstructing">>]
    /\ jobs' = _update_job_status(sup[r].job, "running", HandlerProgress,
                                  NoMsg)
    /\ UNCHANGED <<images, input_dir, model_file, njobs, nrun, npoll, recon,
                   poll, s3_service, s3_uploads, response, output_dir,
                   s3_objects, nreq, deleted>>

(* _run_reconstruction, lines 107-113 *)
SupLaunching(r) ==
    /\ sup[r].pc = "run10"
    /\ sup' = [sup EXCEPT ![r].pc = "popen",
                          ![r].mem.progress = LaunchProgress,
                          ![r].mem.message = <<"starting meshroom">>]
    /\ jobs' = _update_job_status(sup[r].job, "running", LaunchProgress,
                                  NoMsg)
    /\ UNCHANGED <<images, input_dir, model_file, njobs, nrun, npoll, recon,
                   poll, s3_service, s3_uploads, response, output_dir,
                   s3_objects, nreq, deleted>>

(* the except branch of _run_reconstruction, lines 160-166 *)
SupExcept(r, e) ==
    /\ sup' = [sup EXCEPT ![r].pc = "done",
                          ![r].iter = 0,
                          ![r].diag = e,
                          ![r].mem.status = "failed",
                          ![r].mem.message = ReconErrorMsg(e)]
    /\ jobs' = _update_job_status(sup[r].job, "failed", NoProgress,
                                  ReconErrorMsg(e))

(* subprocess.Popen, lines 118-124: the engine starts or Popen raises *)
SupPopen(r) ==
    /\ sup[r].pc = "popen"
    /\ \/ /\ sup' = [sup EXCEPT ![r].pc = "monitor"]
          /\ UNCHANGED jobs
       \/ \E e \in LaunchErrors : SupExcept(r, e)
    /\ UNCHANGED <<images, input_dir, model_file, njobs, nrun, npoll, recon,
                   poll, s3_service, s3_uploads, response, output_dir,
                   s3_objects, nreq, deleted>>

(* one round of the loop of _monitor_progress, lines 219-227 *)
SupMonitor(r) ==
    /\ sup[r].pc = "monitor"
    /\ sup[r].iter < MaxTicks
    /\ sup' = [sup EXCEPT ![r].iter = @ + 1,
                 ![r].mem.progress =
                     MonitorProgress(sup[r].iter * MonitorInterval)]
    /\ UNCHANGED <<jobs, images, input_dir, model_file, njobs, nrun, npoll,
                   recon, poll, s3_service, s3_uploads, response, output_dir,
                   s3_objects, nreq, deleted>>

(* the engine exits: communicate() and lines 132-158; the engine exits 0   *)
(* only when the input folder it was given exists                          *)
SupExit(r, rc, stderr, found) ==
    /\ sup[r].pc = "monitor"
    /\ rc = 0 => input_dir[sup[r].job]
    /\ LET j == sup[r].job
       IN  IF rc = 0
           THEN /\ model_file' = [model_file EXCEPT ![j] = @ \/ found]
                /\ sup' = [sup EXCEPT ![r].pc = "done",
                              ![r].iter = 0,
                              ![r].rc = rc, ![r].found = found,
                              ![r].mem.status = "completed",
                              ![r].mem.progress = DoneProgress,
                              ![r].mem.message = <<"reconstruction done">>,
                              ![r].mem.output_file = _process_output(found)]
                /\ jobs' = _update_job_status(j, "completed", DoneProgress,
                                              NoMsg)
           ELSE /\ model_file' = model_file
                /\ sup' = [sup EXCEPT ![r].pc = "done",
                              ![r].iter = 0,
                              ![r].rc = rc, ![r].diag = stderr,
                              ![r].mem.status = "failed",
                              ![r].mem.message = ReconFailedMsg(stderr)]
                /\ jobs' = _update_job_status(j, "failed", NoProgress,
                                              ReconFailedMsg(stderr))
    /\ UNCHANGED <<images, input_dir, njobs, nrun, npoll, recon, poll,
                   s3_service, s3_uploads, response, output_dir, s3_objects,
                   nreq, deleted>>

(* ---------------- status poll: blueprints/api.py check_status ---------- *)

(* jobs_status of the MeshroomService the handler constructs: empty *)
MeshroomService_jobs_status == [j \in {} |-> NoEntry]

get_reconstruction_status_Unknown(jobs_status, j) ==
    [status |-> "unknown", progress |-> NoProgress,
     error |-> TaskMissingMsg, output_file |-> NoPath,
     message |-> NoMsg, model_ready |-> FALSE, download_url |-> NoPath]

get_reconstruction_status_Ready(jobs_status, j) ==
    IF j \notin DOMAIN jobs_status
    THEN get_reconstruction_status_Unknown(jobs_status, j)
    ELSE LET ready == jobs_status[j].status = "completed"
         IN  [status |-> jobs_status[j].status,
              progress |-> jobs_status[j].progress,
              error |-> NoMsg,
              output_file |-> jobs_status[j].output_file,
              message |-> jobs_status[j].message,
              model_ready |-> ready,
              download_url |-> IF ready THEN "/api/download" ELSE NoPath]

(* MeshroomService.get_reconstruction_status *)
get_reconstruction_status(jobs_status, j) ==
    IF j \notin DOMAIN jobs_status
    THEN [status |-> NoStatus, progress |-> NoProgress,
          error |-> TaskMissingMsg, output_file |-> NoPath,
          message |-> NoMsg, model_ready |-> FALSE, download_url |-> NoPath]
    ELSE LET ready == jobs_status[j].status = "completed" /\ model_file[j]
         IN  [status |-> jobs_status[j].status,
              progress |-> jobs_status[j].progress,
              error |-> NoMsg,
              output_file |-> jobs_status[j].output_file,
              message |-> jobs_status[j].message,
              model_ready |-> ready,
              download_url |-> IF ready THEN "/api/download" ELSE NoPath]

(* a poll that asks the service supervising the job, whose entry names the *)
(* copied model file *)
SupervisorJobsStatus(j) ==
    LET rs == {r \in Runs : sup[r].job = j /\ sup[r].pc # "none"}
    IN  IF rs = {} THEN MeshroomService_jobs_status
        ELSE LET r == CHOOSE x \in rs : \A y \in rs : y <= x
             IN  [k \in {j} |-> sup[r].mem]

PolledStatus_Supervisor(j) ==
    LET st == get_reconstruction_status(SupervisorJobsStatus(j), j)
    IN  [st EXCEPT !.output_file =
            IF st.status = "completed" THEN "models/model.obj" ELSE NoPath]

(* the status the poll of job j obtains from its MeshroomService *)
PolledStatus(j) == get_reconstruction_status(MeshroomService_jobs_status, j)

(* lines 156-171: look the job up *)
check_status(u, j) ==
    /\ nrun + npoll + nreq < MaxReq
    /\ npoll' = npoll + 1
    /\ LET q == npoll + 1
       IN  IF ~get_job(u, j)
           THEN /\ poll' = [poll EXCEPT ![q] = DonePoll]
                /\ response' = [kind |-> "status", code |-> 404,
                                job_id |-> j, error |-> "job not found"]
           ELSE /\ poll' = [poll EXCEPT ![q] =
                     [pc |-> "sync", user |-> u, job |-> j,
                      loaded |-> jobs[j]]]
                /\ UNCHANGED response
    /\ UNCHANGED <<jobs, images, input_dir, model_file, njobs, nrun, recon,
                   sup, s3_service, s3_uploads, output_dir, s3_objects, nreq,
                   deleted>>

(* lines 173-217: reconcile, materialize, commit, answer *)
check_status_sync(q, s3ok) ==
    /\ poll[q].pc = "sync"
    /\ LET j == poll[q].job
           job == poll[q].loaded
           ms == PolledStatus(j)
           differs == ms.status # job.status
           synced == update_status(job,
                        IF ms.status = NoStatus THEN job.status
                        ELSE ms.status,
                        IF ms.progress = NoProgress THEN job.progress
                        ELSE ms.progress,
                        ms.error, Now)
           has_output == ms.status = "completed" /\ ms.output_file # NoPath
           pathed == IF has_output
                     THEN [synced EXCEPT !.model_file_path = ms.output_file,
                                         !.output_folder = "models"]
                     ELSE synced
           uploads == differs /\ has_output /\ s3_service /\ model_file[j]
           cur == IF ~differs THEN job
                  ELSE IF uploads /\ s3ok
                  THEN [pathed EXCEPT !.s3_key_prefix = "jobs"]
                  ELSE pathed
       IN  /\ s3_uploads' = IF uploads
                            THEN [s3_uploads EXCEPT ![j] = @ + 1]
                            ELSE s3_uploads
           /\ s3_objects' = IF uploads /\ s3ok
                            THEN [s3_objects EXCEPT ![j] = @ \cup {"models"}]
                            ELSE s3_objects
           /\ IF j \in DOMAIN jobs
              THEN /\ jobs' = [jobs EXCEPT ![j] = Flush(@, job, cur)]
                   /\ response' = [kind |-> "status", code |-> 200,
                                   job_id |-> j, status |-> cur.status,
                                   progress |-> cur.progress,
                                   error_message |-> cur.error_message,
                                   meshroom_status |-> ms]
              ELSE /\ jobs' = jobs
                   /\ response' = [kind |-> "status", code |-> 500,
                                   job_id |-> j]
    /\ poll' = [poll EXCEPT ![q] = DonePoll]
    /\ UNCHANGED <<images, input_dir, model_file, njobs, nrun, npoll, recon,
                   sup, s3_service, output_dir, nreq, deleted>>

(* ---------------- job management: api.py, job_service.py -------------- *)

(* what the object store does with the calls of one request:              *)
(*   ok     the calls succeed                                              *)
(*   fail   the call returns success False (a ClientError was caught)      *)
(*   raise  the call raises an exception that is no ClientError            *)
StoreModes == {"ok", "fail", "raise"}

NotDeleted == <<>>

(* rows of the table without job j *)
WithoutJob(j) == [k \in DOMAIN jobs \ {j} |-> jobs[k]]

(* JobService.delete_job and the DELETE handler, lines 390-410 *)
delete_job(u, j, store) ==
    /\ nrun + npoll + nreq < MaxReq
    /\ nreq' = nreq + 1
    /\ IF ~get_job(u, j)
       THEN /\ response' = [kind |-> "delete", code |-> 404, job_id |-> j,
                            error |-> "job not found"]
            /\ UNCHANGED <<jobs, images, input_dir, output_dir, model_file,
                           s3_objects, deleted>>
       ELSE LET remote == s3_service /\ jobs[j].s3_key_prefix # NoPath
            IN  IF remote /\ store = "raise"
                THEN \* the except branch: rollback, success False
                     /\ response' = [kind |-> "delete", code |-> 404,
                                     job_id |-> j, error |-> "store error"]
                     /\ deleted' = [deleted EXCEPT ![j] = <<"remote">>]
                     /\ UNCHANGED <<jobs, images, input_dir, output_dir,
                                    model_file, s3_objects>>
                ELSE /\ s3_objects' = IF remote /\ store = "ok"
                                      THEN [s3_objects EXCEPT ![j] = {}]
                                      ELSE s3_objects
                     /\ input_dir' = [input_dir EXCEPT ![j] = FALSE]
                     /\ output_dir' =
                           IF jobs[j].output_folder # NoPath
                           THEN [output_dir EXCEPT ![j] = FALSE]
                           ELSE output_dir
                     /\ model_file' =
                           IF jobs[j].output_folder # NoPath
                           THEN [model_file EXCEPT ![j] = FALSE]
                           ELSE model_file
                     /\ jobs' = WithoutJob(j)
                     /\ images' = [images EXCEPT ![j] = NoImages]
                     /\ deleted' = [deleted EXCEPT ![j] =
                           (IF remote THEN <<"remote">> ELSE <<>>)
                           \o <<"local", "record">>]
                     /\ response' = [kind |-> "delete", code |-> 200,
                                     job_id |-> j, error |-> "none"]
    /\ UNCHANGED <<njobs, nrun, npoll, recon, sup, poll, s3_service,
                   s3_uploads>>

(* MODELS_FOLDER/<job_id>.obj, the fallback path of download_model: the    *)
(* supervisor copies the mesh to MODELS_FOLDER/<job_id>/<job_id>.obj and   *)
(* nothing writes the fallback path                                        *)
FallbackModelExists(j) == FALSE

(* download_model, lines 226-279 *)
download_model(u, j) ==
    /\ nrun + npoll + nreq < MaxReq
    /\ nreq' = nreq + 1
    /\ response' =
          IF ~get_job(u, j)
          THEN [kind |-> "download", code |-> 404, job_id |-> j,
                error |-> "job not found"]
          ELSE IF jobs[j].status # "completed"
          THEN [kind |-> "download", code |-> 400, job_id |-> j,
                error |-> "not completed"]
          ELSE IF s3_service /\ jobs[j].s3_key_prefix # NoPath
          THEN [kind |-> "download", code |-> 200, job_id |-> j,
                error |-> "none"]
          ELSE IF jobs[j].model_file_path # NoPath /\ model_file[j]
          THEN [kind |-> "download", code |-> 200, job_id |-> j,
                error |-> "none"]
          ELSE IF FallbackModelExists(j)
          THEN [kind |-> "download", code |-> 200, job_id |-> j,
                error |-> "none"]
          ELSE [kind |-> "download", code |-> 404, job_id |-> j,
                error |-> "model file missing"]
    /\ UNCHANGED <<jobs, images, input_dir, model_file, njobs, nrun, npoll,
                   recon, sup, poll, s3_service, s3_uploads, output_dir,
                   s3_objects, deleted>>

(* get_job_detail, lines 319-344, through JobService.get_job *)
get_job_detail(u, j) ==
    /\ nrun + npoll + nreq < MaxReq
    /\ nreq' = nreq + 1
    /\ response' =
          IF ~get_job(u, j)
          THEN [kind |-> "detail", code |-> 404, job_id |-> j,
                error |-> "job not found"]
          ELSE [kind |-> "detail", code |-> 200, job_id |-> j,
                error |-> "none", job |-> jobs[j], images |-> images[j]]
    /\ UNCHANGED <<jobs, images, input_dir, model_file, njobs, nrun, npoll,
                   recon, sup, poll, s3_service, s3_uploads, output_dir,
                   s3_objects, deleted>>

update_job_Reassign(u, j) ==
    /\ nrun + npoll + nreq < MaxReq
    /\ nreq' = nreq + 1
    /\ IF ~get_job(u, j)
       THEN /\ response' = [kind |-> "update", code |-> 404, job_id |-> j,
                            error |-> "job not found"]
            /\ UNCHANGED jobs
       ELSE /\ jobs' = [jobs EXCEPT ![j].title = "edited",
                                    ![j].user_id = "bob",
                                    ![j].job_id = 0]
            /\ response' = [kind |-> "update", code |-> 200, job_id |-> j,
                            error |-> "none"]
    /\ UNCHANGED <<images, input_dir, model_file, njobs, nrun, npoll,
                   recon, sup, poll, s3_service, s3_uploads, output_dir,
                   s3_objects, deleted>>

(* update_job, lines 350-385 *)
update_job(u, j) ==
    /\ nrun + npoll + nreq < MaxReq
    /\ nreq' = nreq + 1
    /\ IF ~get_job(u, j)
       THEN /\ response' = [kind |-> "update", code |-> 404, job_id |-> j,
                            error |-> "job not found"]
            /\ UNCHANGED jobs
       ELSE /\ jobs' = [jobs EXCEPT ![j].title = "edited"]
            /\ response' = [kind |-> "update", code |-> 200, job_id |-> j,
                            error |-> "none"]
    /\ UNCHANGED <<images, input_dir, model_file, njobs, nrun, npoll,
                   recon, sup, poll, s3_service, s3_uploads, output_dir,
                   s3_objects, deleted>>

(* JobService.list_jobs, lines 254-302: the rows of the caller *)
JobsOf(u) == {j \in DOMAIN jobs : jobs[j].user_id = u}

(* list_jobs, lines 284-314 *)
list_jobs(u) ==
    /\ nrun + npoll + nreq < MaxReq
    /\ nreq' = nreq + 1
    /\ response' = [kind |-> "list", code |-> 200, job_id |-> 0,
                    error |-> "none",
                    jobs |-> [j \in JobsOf(u) |-> jobs[j]]]
    /\ UNCHANGED <<jobs, images, input_dir, model_file, njobs, nrun, npoll,
                   recon, sup, poll, s3_service, s3_uploads, output_dir,
                   s3_objects, deleted>>

(* ---------------- the system ---------------- *)

Init ==
    /\ jobs = <<>>
    /\ images = [j \in JobIds |-> NoImages]
    /\ input_dir = [j \in JobIds |-> FALSE]
    /\ model_file = [j \in JobIds |-> FALSE]
    /\ njobs = 0
    /\ nrun = 0
    /\ npoll = 0
    /\ recon = [r \in Runs |-> IdleReq]
    /\ sup = [r \in Runs |-> NoSup]
    /\ poll = [q \in Polls |-> IdlePoll]
    /\ s3_service = TRUE
    /\ s3_uploads = [j \in JobIds |-> 0]
    /\ response = [kind |-> "none", code |-> 0, job_id |-> 0]
    /\ output_dir = [j \in JobIds |-> FALSE]
    /\ s3_objects = [j \in JobIds |-> {}]
    /\ nreq = 0
    /\ deleted = [j \in JobIds |-> NotDeleted]

Next ==
    \/ \E u \in Uploaders, b \in Batches, store \in StoreModes :
          upload_images(u, b, store)
    \/ \E u \in Users, j \in JobIds, p \in RequestParams :
          reconstruct_3d(u, j, p)
    \/ \E r \in Runs : start_reconstruction(r)
    \/ \E r \in Runs : reconstruct_3d_result(r)
    \/ \E r \in Runs : SupRunning(r)
    \/ \E r \in Runs : SupLaunching(r)
    \/ \E r \in Runs : SupPopen(r)
    \/ \E r \in Runs : SupMonitor(r)
    \/ \E r \in Runs, rc \in {0, 1}, d \in Diagnostics, f \in BOOLEAN :
          SupExit(r, rc, d, f)
    \/ \E u \in Users, j \in JobIds : check_status(u, j)
    \/ \E q \in Polls, ok \in BOOLEAN : check_status_sync(q, ok)
    \/ \E u \in Users, j \in JobIds, m \in StoreModes : delete_job(u, j, m)
    \/ \E u \in Users, j \in JobIds : download_model(u, j)
    \/ \E u \in Users, j \in JobIds : get_job_detail(u, j)
    \/ \E u \in Users, j \in JobIds : update_job(u, j)
    \/ \E u \in Users : list_jobs(u)

Spec == Init /\ [][Next]_vars

(* ======================= claims ======================= *)

(* supervisors of job j whose thread has not returned *)
ActiveSupervisors(j) ==
    {r \in Runs : sup[r].job = j /\ sup[r].pc \notin {"none", "done"}}

(* supervisors ever started for job j *)
SupervisorsOf(j) == {r \in Runs : sup[r].job = j /\ sup[r].pc # "none"}

HandlersIdle == \A r \in Runs : recon[r].pc \in {"idle", "done"}

(* C1: an upload request that is rejected leaves no Job row, no Image row  *)
(* and no input folder behind, and returns no job id.                      *)
C1_RejectedUploadLeavesNothing ==
    [][\A u \in Users, b \in Batches, store \in StoreModes :
         (upload_images(u, b, store) /\ response'.code = 400)
         => /\ jobs' = jobs
            /\ images' = images
            /\ input_dir' = input_dir
            /\ response'.job_id = 0]_vars

(* C2: at every moment at most one supervisor is active per job id.        *)
C2_OneSupervisorPerJob ==
    \A j \in JobIds : Cardinality(ActiveSupervisors(j)) <= 1

(* C3: a reconstruct request of the owner on a job whose persisted status  *)
(* is initializing, running or completed is rejected, starts no supervisor *)
(* and leaves every persisted field of the job unchanged.                  *)
C3_GatedReconstructChangesNothing ==
    [][\A u \in Users, j \in JobIds, p \in RequestParams :
         (/\ reconstruct_3d(u, j, p)
          /\ get_job(u, j)
          /\ jobs[j].status \in {"initializing", "running", "completed"})
         => /\ recon'[nrun'] = DoneReq
            /\ response'.kind = "reconstruct"
            /\ response'.code = 400
            /\ jobs' = jobs
            /\ sup' = sup
            /\ images' = images
            /\ input_dir' = input_dir
            /\ model_file' = model_file]_vars

(* C3 witness: a reconstruct request was refused for the job's status      *)
(* while a supervisor of that job was at work.                             *)
C3_Witness ==
    /\ response.kind = "reconstruct"
    /\ response.code = 400
    /\ response.error = "job status"
    /\ \E j \in DOMAIN jobs :
          /\ response.job_id = j
          /\ jobs[j].status \in {"initializing", "running", "completed"}
          /\ ActiveSupervisors(j) # {}

AllowedTransitions ==
    {<<"pending", "initializing">>, <<"failed", "initializing">>,
     <<"initializing", "running">>, <<"running", "completed">>,
     <<"running", "failed">>, <<"initializing", "failed">>}

(* C4: every change of a job's persisted status is a transition of the     *)
(* state machine; completed never changes again.                           *)
C4_StatusFollowsStateMachine ==
    [][\A j \in DOMAIN jobs \cap DOMAIN jobs' :
         jobs'[j].status # jobs[j].status
         => <<jobs[j].status, jobs'[j].status>> \in AllowedTransitions]_vars

(* C5: persisted progress decreases only in the commit of an accepted      *)
(* reconstruct request, which resets it to 0.                              *)
C5_ProgressNeverDecreasesInRun ==
    [][\A j \in DOMAIN jobs \cap DOMAIN jobs' :
         jobs'[j].progress < jobs[j].progress
         => /\ jobs'[j].progress = 0
            /\ \E r \in Runs : recon[r].job = j /\ start_reconstruction(r)]_vars

(* C6: the model of a job is uploaded to the object store at most once,    *)
(* whatever the sequence of polls.                                         *)
C6_MaterializedAtMostOnce == \A j \in JobIds : s3_uploads[j] <= 1

(* C6 witness: a completed job has been polled twice and the last poll     *)
(* answered completed.                                                     *)
C6_Witness ==
    /\ npoll >= 2
    /\ \A q \in Polls : poll[q].pc # "sync"
    /\ response.kind = "status"
    /\ response.code = 200
    /\ response.status = "completed"
    /\ \E j \in DOMAIN jobs :
          /\ response.job_id = j
          /\ jobs[j].status = "completed"
          /\ model_file[j]
          /\ s3_uploads[j] <= 1

(* C7: once a poll has answered completed for a job whose engine exited 0  *)
(* and left a mesh, with the object store configured, the job records the  *)
(* remote key prefix.                                                      *)
C7_FirstCompletedPollMaterializes ==
    \A j \in DOMAIN jobs :
       (/\ s3_service
        /\ model_file[j]
        /\ \E r \in SupervisorsOf(j) :
              sup[r].pc = "done" /\ sup[r].rc = 0 /\ sup[r].found
        /\ response.kind = "status"
        /\ response.code = 200
        /\ response.job_id = j
        /\ response.status = "completed")
       => jobs[j].s3_key_prefix # NoPath

(* C8: a poll of a job whose supervisor holds a status other than the      *)
(* persisted one leaves the persisted status and progress equal to the     *)
(* supervisor's, and answers with the supervisor's status.                 *)
C8_PollReconciles ==
    [][\A q \in Polls, ok \in BOOLEAN, r \in Runs :
         (/\ check_status_sync(q, ok)
          /\ poll[q].job \in DOMAIN jobs
          /\ r \in SupervisorsOf(poll[q].job)
          /\ sup[r].mem.status # jobs[poll[q].job].status)
         => /\ jobs'[poll[q].job].status = sup[r].mem.status
            /\ jobs'[poll[q].job].progress = sup[r].mem.progress
            /\ response'.meshroom_status.status = sup[r].mem.status]_vars

(* C9: when every supervisor started for a job has returned and no         *)
(* reconstruct handler is still at work, the persisted status of the job   *)
(* is completed or failed.                                                 *)
C9_FinishedRunIsTerminal ==
    \A j \in DOMAIN jobs :
       (/\ SupervisorsOf(j) # {}
        /\ ActiveSupervisors(j) = {}
        /\ HandlersIdle)
       => jobs[j].status \in Terminal

(* C10: the step in which a supervisor ends on a non-zero exit code or on  *)
(* an exception leaves the job failed with an error_message that contains  *)
(* the captured diagnostic text.                                           *)
C10_FailureIsRecorded ==
    [][\A r \in Runs :
         (/\ sup[r].pc \notin {"none", "done"}
          /\ sup'[r].pc = "done"
          /\ sup'[r].rc # 0
          /\ sup[r].job \in DOMAIN jobs')
         => /\ jobs'[sup[r].job].status = "failed"
            /\ Contains(jobs'[sup[r].job].error_message, sup'[r].diag)]_vars

(* C10 witness: the engine exited 1 with "out of memory" on stderr and     *)
(* the job is failed with that text in its error_message.                  *)
C10_Witness ==
    \E r \in Runs :
       /\ sup[r].pc = "done"
       /\ sup[r].rc = 1
       /\ sup[r].diag = "out of memory"
       /\ sup[r].job \in DOMAIN jobs
       /\ jobs[sup[r].job].status = "failed"
       /\ Contains(jobs[sup[r].job].error_message, "out of memory")

Statuses == {"pending", "initializing", "running", "completed", "failed"}

C12_StatusAndProgressInRange ==
    /\ \A j \in DOMAIN jobs :
          /\ jobs[j].status \in Statuses
          /\ jobs[j].progress \in 0..100
    /\ \A r \in Runs :
          sup[r].pc # "none"
          => /\ sup[r].mem.status \in Statuses
             /\ sup[r].mem.progress \in 0..100

(* C12 witness: a poll has written the row of a job whose supervisor is    *)
(* monitoring the engine.                                                  *)
C12_Witness ==
    \E j \in DOMAIN jobs, r \in Runs :
       /\ sup[r].job = j
       /\ sup[r].pc = "monitor"
       /\ sup[r].iter > 0
       /\ jobs[j].error_message = TaskMissingMsg
       /\ jobs[j].status = "running"
       /\ jobs[j].progress = LaunchProgress

(* position of the first occurrence of step x in a deletion log, 0 if none *)
StepAt(log, x) ==
    IF \E i \in DOMAIN log : log[i] = x
    THEN CHOOSE i \in DOMAIN log :
            log[i] = x /\ \A k \in DOMAIN log : log[k] = x => i <= k
    ELSE 0

(* C13: a delete of a job by its owner that answers success leaves no Job  *)
(* row, no Image row, no input or output directory and no remote object    *)
(* under jobs/<job_id>/.                                                   *)
C13_DeleteRemovesEverything ==
    [][\A u \in Users, j \in JobIds, m \in StoreModes :
         (delete_job(u, j, m) /\ get_job(u, j) /\ response'.code = 200)
         => /\ j \notin DOMAIN jobs'
            /\ images'[j] = NoImages
            /\ ~input_dir'[j]
            /\ ~output_dir'[j]
            /\ s3_objects'[j] = {}]_vars

C15_RecordDeletedLast ==
    \A j \in JobIds :
       StepAt(deleted[j], "record") > 0
       => /\ StepAt(deleted[j], "remote") > 0
          /\ StepAt(deleted[j], "remote") < StepAt(deleted[j], "record")
          /\ StepAt(deleted[j], "local") > 0
          /\ StepAt(deleted[j], "local") < StepAt(deleted[j], "record")

(* C16: a request of a user naming a job of another user is answered "not  *)
(* found" with a response that carries nothing of the job, and changes no  *)
(* row, image, file, remote object or supervisor; a listing of a user      *)
(* holds no job of another user.                                           *)
C16_TenantIsolation ==
    [][\A u \in Users, j \in DOMAIN jobs :
         jobs[j].user_id # u
         => /\ (\/ \E p \in RequestParams : reconstruct_3d(u, j, p)
                \/ check_status(u, j)
                \/ download_model(u, j)
                \/ get_job_detail(u, j)
                \/ update_job(u, j)
                \/ \E m \in StoreModes : delete_job(u, j, m))
               => /\ response' \in
                       {[kind |-> k, code |-> 404, job_id |-> j,
                         error |-> "job not found"] :
                          k \in {"reconstruct", "status", "download",
                                 "detail", "update", "delete"}}
                  /\ UNCHANGED <<jobs, images, input_dir, output_dir,
                                 model_file, sup, s3_objects, s3_uploads,
                                 deleted>>
            /\ list_jobs(u)
               => /\ j \notin DOMAIN response'.jobs
                  /\ UNCHANGED <<jobs, images, input_dir, output_dir,
                                 model_file, sup, s3_objects, s3_uploads,
                                 deleted>>]_vars

(* C16 witness: a delete request naming an existing job was answered "not  *)
(* found" while the job's supervisor was at work.                          *)
C16_Witness ==
    /\ response.kind = "delete"
    /\ response.code = 404
    /\ \E j \in DOMAIN jobs :
          /\ response.job_id = j
          /\ ActiveSupervisors(j) # {}
          /\ input_dir[j]

(* C17: a reconstruct request of the owner on a failed job with a valid    *)
(* quality is accepted; the run it starts commits initializing with        *)
(* progress 0 and starts a supervisor, whose first write is running.       *)
C17_FailedJobRestarts ==
    [][/\ \A u \in Users, j \in JobIds, p \in RequestParams :
           (/\ reconstruct_3d(u, j, p)
            /\ get_job(u, j)
            /\ jobs[j].status = "failed"
            /\ p[1] \in QUALITY_PRESETS)
           => /\ recon'[nrun'].pc = "start"
              /\ recon'[nrun'].job = j
       /\ \A r \in Runs :
           (/\ start_reconstruction(r)
            /\ recon[r].loaded.status = "failed"
            /\ recon[r].job \in DOMAIN jobs)
           => /\ jobs'[recon[r].job].status = "initializing"
              /\ jobs'[recon[r].job].progress = 0
              /\ sup'[r].pc = "run5"
       /\ \A r \in Runs :
           (/\ SupRunning(r)
            /\ recon[r].loaded.status = "failed"
            /\ sup[r].job \in DOMAIN jobs)
           => jobs'[sup[r].job].status = "running"]_vars

(* number of Image rows of job j *)
ImageCount(j) == images[j].good + images[j].small

(* C18: a reconstruct request launches a supervisor only for a job that    *)
(* has at least 3 input images.                                            *)
C18_LaunchNeedsThreeImages ==
    [][\A r \in Runs :
         (start_reconstruction(r) /\ sup'[r].pc # "none")
         => /\ input_dir[recon[r].job]
            /\ ImageCount(recon[r].job) >= 3]_vars

(* the run of a supervisor of job j ended with exit code 0 and a mesh *)
RunSucceeded(j) ==
    \E r \in Runs :
       sup[r].job = j /\ sup[r].pc = "done" /\ sup[r].rc = 0 /\ sup[r].found

(* C19: for a completed job whose engine exited 0 and left a mesh that is  *)
(* on disk, a status poll answers completed with progress 100 and a        *)
(* download request of the owner succeeds.                                 *)
C19_CompletedJobDownloads ==
    [][/\ \A q \in Polls, ok \in BOOLEAN :
           (/\ check_status_sync(q, ok)
            /\ poll[q].job \in DOMAIN jobs
            /\ RunSucceeded(poll[q].job)
            /\ poll[q].loaded.status = "completed")
           => /\ response'.code = 200
              /\ response'.status = "completed"
              /\ response'.progress = 100
       /\ \A u \in Users, j \in JobIds :
           (/\ download_model(u, j)
            /\ get_job(u, j)
            /\ RunSucceeded(j)
            /\ model_file[j]
            /\ jobs[j].status = "completed")
           => response'.code = 200]_vars

(* C20: an upload that succeeds creates exactly one Job row, pending with  *)
(* progress 0; and when the handler of a reconstruct request that launched *)
(* a supervisor for a pending job returns, the persisted status is running *)
(* with progress at least 5.                                               *)
C20_UploadThenReconstruct ==
    [][/\ \A u \in Users, b \in Batches, store \in StoreModes :
           (upload_images(u, b, store) /\ response'.code = 200)
           => /\ response'.job_id \notin DOMAIN jobs
              /\ DOMAIN jobs' = DOMAIN jobs \cup {response'.job_id}
              /\ \A k \in DOMAIN jobs : jobs'[k] = jobs[k]
              /\ jobs'[response'.job_id].status = "pending"
              /\ jobs'[response'.job_id].progress = 0
       /\ \A r \in Runs :
           (/\ reconstruct_3d_result(r)
            /\ recon[r].loaded.status = "pending"
            /\ sup[r].pc # "none"
            /\ recon[r].job \in DOMAIN jobs)
           => /\ jobs'[recon[r].job].status = "running"
              /\ jobs'[recon[r].job].progress >= 5]_vars

(* C21: when a supervisor commits a status, progress or error message to   *)
(* the record of a job after a poll has read that record and before the    *)
(* poll commits, the poll's commit leaves every one of the three values    *)
(* that changed since the poll's read as the supervisor committed it.      *)
C21_PollKeepsNewerSupervisorState ==
    [][\A q \in Polls, ok \in BOOLEAN, r \in Runs :
         LET j == poll[q].job
             old == poll[q].loaded
         IN  (/\ check_status_sync(q, ok)
              /\ j \in DOMAIN jobs
              /\ r \in SupervisorsOf(j)
              /\ sup[r].pc \notin {"none", "run5"}
              /\ jobs[j].status = sup[r].mem.status)
             => /\ jobs[j].status # old.status
                   => jobs'[j].status = jobs[j].status
                /\ jobs[j].progress # old.progress
                   => jobs'[j].progress = jobs[j].progress
                /\ (/\ jobs[j].error_message # old.error_message
                    /\ jobs[j].error_message = sup[r].mem.message)
                   => jobs'[j].error_message = jobs[j].error_message]_vars

(* C22: after an upload that succeeds, the Image records of the job and    *)
(* the files kept in its input folder are files that passed validation     *)
(* only: no corrupt or undersized file of the batch has a record or stays  *)
(* in the folder.                                                          *)
C22_OnlyValidImagesKept ==
    [][\A u \in Users, b \in Batches, store \in StoreModes :
         (upload_images(u, b, store) /\ response'.code = 200)
         => /\ images'[response'.job_id].small = 0
            /\ images'[response'.job_id].good = b.good]_vars

(* C23: a batch is rejected only when fewer than three of its files are    *)
(* valid images with an allowed extension and a size under the ceiling; a  *)
(* batch with at least three valid images is accepted although it also    *)
(* holds files with a disallowed extension, which get no Image record.     *)
C23_BatchWithThreeValidAccepted ==
    [][\A u \in Users, b \in Batches :
         (upload_images(u, b, "ok") /\ b.good >= MinValidImages)
         => /\ response'.code = 200
            /\ images'[response'.job_id].good
               + images'[response'.job_id].small <= b.good + b.small]_vars

(* C24: a failure of the object store is not fatal. An upload whose batch  *)
(* passes every check succeeds and keeps its images locally, without a     *)
(* remote object, when mirroring fails; a poll of a completed job whose    *)
(* model upload fails leaves the job completed; and a completed job whose  *)
(* mesh is on disk and that has no remote key is downloadable by its       *)
(* owner.                                                                  *)
C24_StoreFailureNotFatal ==
    [][/\ \A u \in Users, b \in Batches, store \in StoreModes \ {"ok"} :
           (/\ upload_images(u, b, store)
            /\ validate_file_upload(b)
            /\ job_service_upload_images(b))
           => /\ response'.code = 200
              /\ images'[response'.job_id].good = b.good
              /\ input_dir'[response'.job_id]
              /\ s3_objects'[response'.job_id] = {}
       /\ \A q \in Polls :
           (/\ check_status_sync(q, FALSE)
            /\ poll[q].job \in DOMAIN jobs
            /\ jobs[poll[q].job].status = "completed")
           => jobs'[poll[q].job].status = "completed"
       /\ \A u \in Users, j \in JobIds :
           (/\ download_model(u, j)
            /\ get_job(u, j)
            /\ jobs[j].status = "completed"
            /\ jobs[j].s3_key_prefix = NoPath
            /\ model_file[j])
           => response'.code = 200]_vars

(* the status the MeshroomService that supervises run r reports for job j *)
SupervisorStatus(r, j) ==
    get_reconstruction_status([k \in {j} |-> sup[r].mem], j)

C26_MemoryProgressNeverDecreases ==
    [][\A r \in Runs :
         sup[r].pc # "none"
         => sup'[r].mem.progress >= sup[r].mem.progress]_vars

(* C27: a reconstruct request of the owner whose quality is none of low,   *)
(* medium and high is answered with an error, starts no run and no         *)
(* supervisor, and leaves the record of the job (status, progress,         *)
(* quality, preset) as it was; every run that starts a supervisor carries  *)
(* one of the three qualities.                                             *)
C27_InvalidQualityRejected ==
    [][/\ \A u \in Users, j \in JobIds, p \in RequestParams :
           (/\ reconstruct_3d(u, j, p)
            /\ get_job(u, j)
            /\ p[1] \notin {"low", "medium", "high"})
           => /\ response'.kind = "reconstruct"
              /\ response'.code = 400
              /\ recon'[nrun'] = DoneReq
              /\ sup' = sup
              /\ jobs' = jobs
       /\ \A r \in Runs :
           (start_reconstruction(r) /\ sup'[r].pc # "none")
           => recon[r].cur.quality \in {"low", "medium", "high"}]_vars

(* C27 witness: a reconstruct request for an uploaded job that may start   *)
(* was answered "invalid quality".                                         *)
C27_Witness ==
    /\ response.kind = "reconstruct"
    /\ response.code = 400
    /\ response.error = "invalid quality"
    /\ response.job_id \in DOMAIN jobs
    /\ input_dir[response.job_id]
    /\ jobs[response.job_id].status \in {"pending", "failed"}
    /\ jobs[response.job_id].quality \in {"low", "medium", "high"}

(* C28: a poll of a job for which the polled service holds no entry, or    *)
(* holds the persisted status, and whose record did not change since the   *)
(* poll read it, leaves the persisted status, progress, error message,     *)
(* started_at and completed_at as they were.                               *)
C28_PollWithNothingToSyncReadOnly ==
    [][\A q \in Polls, ok \in BOOLEAN :
         LET j == poll[q].job
         IN  (/\ check_status_sync(q, ok)
              /\ j \in DOMAIN jobs
              /\ jobs[j] = poll[q].loaded
              /\ \/ PolledStatus(j).status = NoStatus
                 \/ PolledStatus(j).status = jobs[j].status)
             => /\ jobs'[j].status = jobs[j].status
                /\ jobs'[j].progress = jobs[j].progress
                /\ jobs'[j].error_message = jobs[j].error_message
                /\ jobs'[j].started_at = jobs[j].started_at
                /\ jobs'[j].completed_at = jobs[j].completed_at]_vars

(* C29: a call of start_reconstruction that returns a failure result has   *)
(* started no supervisor thread; a call that started one returns success.  *)
C29_FailureMeansNoSupervisor ==
    [][\A r \in Runs :
         (start_reconstruction(r) /\ recon'[r].result # "success")
         => sup'[r].pc = "none"]_vars

(* C30: a job whose persisted status is completed has no error message,    *)
(* also when an earlier run of the job failed.                             *)
C30_CompletedHasNoErrorMessage ==
    \A j \in DOMAIN jobs :
       jobs[j].status = "completed" => jobs[j].error_message = NoMsg

(* C31: completed_at of a job is set exactly when its persisted status is  *)
(* completed or failed (so a job that runs again after a failure does not  *)
(* keep the completed_at of the failed run while it is initializing or     *)
(* running), and started_at is set whenever a job for which a supervisor   *)
(* was launched is running, completed or failed.                           *)
C31_TimestampsFollowStatus ==
    \A j \in DOMAIN jobs :
       /\ jobs[j].completed_at # NoTime <=> jobs[j].status \in Terminal
       /\ (/\ SupervisorsOf(j) # {}
           /\ jobs[j].status \in {"running", "completed", "failed"})
          => jobs[j].started_at # NoTime

(* the deletion of job j has committed: its record is gone *)
RecordDeleted(j) == \E i \in DOMAIN deleted[j] : deleted[j][i] = "record"

(* C32: once the deletion of a job has committed, no step (in particular   *)
(* no write of a supervisor of the job that is still at work) brings back  *)
(* the Job record or an Image record of the job, and every status poll or  *)
(* reconstruct request that names the job is answered "not found".         *)
C32_DeleteIsPermanent ==
    [][\A j \in JobIds :
         RecordDeleted(j)
         => /\ j \notin DOMAIN jobs'
            /\ images'[j] = NoImages
            /\ \A u \in Users :
                  (\/ check_status(u, j)
                   \/ \E p \in RequestParams : reconstruct_3d(u, j, p))
                  => /\ response'.code = 404
                     /\ response'.error = "job not found"
                     /\ sup' = sup]_vars

(* C32 witness: the job was deleted while a supervisor of it was at work   *)
(* (it still is), the record is gone and a status poll of the job was      *)
(* answered "not found".                                                   *)
C32_Witness ==
    \E j \in JobIds :
       /\ RecordDeleted(j)
       /\ ActiveSupervisors(j) # {}
       /\ j \notin DOMAIN jobs
       /\ images[j] = NoImages
       /\ response.kind = "status"
       /\ response.code = 404
       /\ response.job_id = j

(* C33: no step changes the owner id or the job id of an existing job:     *)
(* every record that exists before and after a step holds the user_id and  *)
(* job_id it held, the job_id is the id the job is looked up by, and a     *)
(* record disappears only by the deletion of its job.                      *)
C33_OwnerAndJobIdImmutable ==
    [][\A j \in DOMAIN jobs :
         IF j \in DOMAIN jobs'
         THEN /\ jobs'[j].user_id = jobs[j].user_id
              /\ jobs'[j].job_id = jobs[j].job_id
              /\ jobs'[j].job_id = j
         ELSE /\ RecordDeleted(j)'
              /\ \E u \in Users, m \in StoreModes : delete_job(u, j, m)]_vars

(* C33 witness: a job whose title was edited by its owner and for which a  *)
(* supervisor has written completed still has the owner that uploaded it.  *)
C33_Witness ==
    \E j \in DOMAIN jobs :
       /\ jobs[j].title = "edited"
       /\ jobs[j].status = "completed"
       /\ jobs[j].user_id \in Uploaders
       /\ jobs[j].job_id = j
       /\ SupervisorsOf(j) # {}

====
